---- MODULE Spec2Model ----
(***************************************************************************)
(* Model of cmd/packaging/packaging.go: the packaging task graph           *)
(* (Init, Pack, AssertInitialized, IsInitialized), the process-wide        *)
(* template data and the string template renderer.                         *)
(*                                                                         *)
(* Strings are sequences of atoms (short strings); "." is the atom the     *)
(* version is split on.  A template is a sequence of tokens: literal text, *)
(* a reference {{.key}}, or a malformed action.                            *)
(***************************************************************************)
EXTENDS Naturals, Sequences, FiniteSets, TLC

VARIABLES
    task,          \* the static table of packagingTask values (never mutated)
    cfgDir,        \* packagingFormatPath(name): [exists, files] per task
    outDir,        \* build.OutputDirectoryPath(name): files per task
    tmpDirs,       \* temporary build directories on disk: id -> files
    nextTmp,       \* ids handed out by ioutil.TempDir so far
    once,          \* sync.Once of the process: has the function run
    templateData,  \* the package-level map (empty before the first call)
    stack,         \* call stack of the running process
    status,        \* "idle" | "running" | "exited" | "panicked" | "crashed"
    result,        \* how the last top-level call ended
    call,          \* the current (or last) top-level call: [op, t, v]
    prev,          \* the task the call before it initialised, or "none"
    trace,         \* events of the current (or last) top-level call
    calls          \* top-level calls issued so far

vars == <<task, cfgDir, outDir, tmpDirs, nextTmp, once, templateData,
          stack, status, result, call, prev, trace, calls>>

----------------------------------------------------------------------------
\* Bounds

\* top-level calls (Init / Pack / AssertInitialized) over all processes
MaxCalls == 2

\* nested calls the goroutine stack holds before the runtime gives up (the
\* real limit is 1 GB of stack); deeper than any path of an acyclic table
MaxDepth == 4

----------------------------------------------------------------------------
\* Strings and templates

Lit(s) == [k |-> "lit", v |-> s]
Ref(key) == [k |-> "ref", v |-> key]
Bad == [k |-> "bad", v |-> "{{"]

\* text handed to template.Parse: plain atoms parse as literal text
AsTemplate(str) == [i \in DOMAIN str |-> Lit(str[i])]

\* mutant: the version is not split
SplitFirstWhole(s) == s

RECURSIVE SplitFirst(_)
\* strings.Split(s, ".")[0]
SplitFirst(s) ==
    IF s = <<>> THEN <<>>
    ELSE IF Head(s) = "." THEN <<>>
    ELSE <<Head(s)>> \o SplitFirst(Tail(s))

RECURSIVE Execute(_, _, _)
\* tmplFile.Execute(&tmplBytes, data) with missingkey=error: writes into the
\* buffer token by token and stops at the first key the map lacks
Execute(t, data, buf) ==
    IF t = <<>> THEN [err |-> "none", out |-> buf]
    ELSE IF Head(t).k = "lit" THEN Execute(Tail(t), data, buf \o <<Head(t).v>>)
    ELSE IF Head(t).v \in DOMAIN data
         THEN Execute(Tail(t), data, buf \o data[Head(t).v])
         ELSE [err |-> "exec", out |-> buf]

\* executeStringTemplate: a parse error ends the process (os.Exit), an
\* execution error panics; only err = "none" returns a string to the caller
executeStringTemplate(t, data) ==
    IF \E i \in DOMAIN t : t[i].k = "bad"
    THEN [err |-> "parse", out |-> <<>>]
    ELSE LET r == Execute(t, data, <<>>)
         IN  IF r.err = "none" THEN r ELSE [err |-> "exec", out |-> <<>>]

----------------------------------------------------------------------------
\* External collaborators (pubspec, config, androidmanifest, runtime)

ProjectName == <<"my_app">>
ApplicationName == <<"MyApp">>
ExecutableName == <<"my_app">>
PackageName == <<"my_app">>
Versions == { <<"1", ".", "2", ".", "3">>, <<"2">> }

BaseData(projectName, buildVersion) ==
    [key \in {"projectName", "version", "release", "arch", "description",
              "organizationName", "author", "applicationName",
              "executableName", "packageName", "license"} |->
        CASE key = "projectName" -> projectName
          [] key = "version" -> buildVersion
          [] key = "release" -> SplitFirst(buildVersion)
          [] key = "arch" -> <<"amd64">>
          [] key = "description" -> <<"desc">>
          [] key = "organizationName" -> <<"com.example">>
          [] key = "author" -> <<"me">>
          [] key = "applicationName" -> ApplicationName
          [] key = "executableName" -> ExecutableName
          [] key = "packageName" -> PackageName
          [] key = "license" -> <<"MIT">>]

\* mutant: the two paths are rendered from the task the command was given
FirstTemplateDataAsked(t, projectName, buildVersion) ==
    LET base == BaseData(projectName, buildVersion)
        icon == executeStringTemplate(task[call.t].linuxDesktopFileIconPath, base)
        d1   == base @@ ("iconPath" :> icon.out)
        exe  == executeStringTemplate(task[call.t].linuxDesktopFileExecutablePath, d1)
        d2   == d1 @@ ("executablePath" :> exe.out)
    IN  IF icon.err # "none" THEN [err |-> icon.err, data |-> base]
        ELSE IF exe.err # "none" THEN [err |-> exe.err, data |-> d1]
        ELSE [err |-> "none", data |-> d2]

\* getTemplateData: the body of once.Do runs on the first call only; it
\* assigns the eleven base entries, then renders iconPath and executablePath
\* from the calling task's fields against the map built so far.  A panic
\* inside once.Do still marks the Once as done.
FirstTemplateData(t, projectName, buildVersion) ==
    LET base == BaseData(projectName, buildVersion)
        icon == executeStringTemplate(t.linuxDesktopFileIconPath, base)
        d1   == base @@ ("iconPath" :> icon.out)
        exe  == executeStringTemplate(t.linuxDesktopFileExecutablePath, d1)
        d2   == d1 @@ ("executablePath" :> exe.out)
    IN  IF icon.err # "none" THEN [err |-> icon.err, data |-> base]
        ELSE IF exe.err # "none" THEN [err |-> exe.err, data |-> d1]
        ELSE [err |-> "none", data |-> d2]

\* mutant: no Once, the map is rebuilt on every call
getTemplateDataAlways(t, projectName, buildVersion) ==
    FirstTemplateData(t, projectName, buildVersion)

getTemplateData(t, projectName, buildVersion) ==
    IF once THEN [err |-> "none", data |-> templateData]
    ELSE FirstTemplateData(t, projectName, buildVersion)

\* executeStringTemplate(x, t.getTemplateData(projectName, buildVersion)):
\* the map is fetched first, then the template is rendered against it
RenderWith(t, x, buildVersion) ==
    LET g == getTemplateData(t, ProjectName, buildVersion)
        r == executeStringTemplate(x, g.data)
    IN  IF g.err # "none" THEN [err |-> g.err, out |-> <<>>, data |-> g.data]
        ELSE [err |-> r.err, out |-> r.out, data |-> g.data]

----------------------------------------------------------------------------
\* The static task tables

A == "linux-a"
B == "linux-b"
C == "linux-c"
D == "darwin-d"
Tasks == {A, B, C, D}

NoDeps == [x \in {} |-> <<>>]

\* fields every table shares; dependsOn and the templates vary per table
BaseTask(name) ==
    [packagingFormatName |-> name,
     dependsOn |-> NoDeps,
     templateFiles |->
        CASE name = A -> ("a/build.sh" :> <<Lit("build.sh")>>) @@
                         ("a/app.desktop" :> <<Ref("executableName"), Lit(".desktop")>>)
          [] name = B -> ("b/control" :> <<Lit("control")>>)
          [] name = C -> ("c/Info.plist" :> <<Lit("Info.plist")>>)
          [] OTHER -> NoDeps,
     executableFiles |->
        IF name = A THEN << <<Lit("build.sh")>> >> ELSE << >>,
     linuxDesktopFileExecutablePath |->
        IF name = D THEN <<>> ELSE <<Lit("/usr/bin/"), Ref("executableName")>>,
     linuxDesktopFileIconPath |->
        IF name = D THEN <<>> ELSE <<Lit("/usr/share/"), Ref("packageName"), Lit("/icon-"), Lit(name)>>,
     generateBuildFiles |-> (name = D),
     buildOutputDirectory |->
        IF name \in {A, D} THEN <<Ref("applicationName"), Lit(".app")>> ELSE <<>>,
     packagingScriptTemplate |-> <<Lit("pack "), Ref("packageName"), Lit(" "), Ref("version")>>,
     outputFileExtension |->
        CASE name = A -> "dmg" [] name = B -> "deb" [] name = C -> "pkg" [] OTHER -> "tar",
     outputFileContainsVersion |-> (name \in {A, B}),
     outputFileUsesApplicationName |-> (name \in {A, C}),
     skipAssertInitialized |-> (name \in {C, D})]

\* A -> B -> C
Chain ==
    [n \in Tasks |->
        CASE n = A -> [BaseTask(n) EXCEPT !.dependsOn = (B :> <<"deps", "b">>)]
          [] n = B -> [BaseTask(n) EXCEPT !.dependsOn = (C :> <<"deps", "c">>)]
          [] OTHER -> BaseTask(n)]

\* A -> {B, C} -> D
Diamond ==
    [n \in Tasks |->
        CASE n = A -> [BaseTask(n) EXCEPT
                         !.dependsOn = (B :> <<"deps", "b">>) @@ (C :> <<"deps", "c">>)]
          [] n = B -> [BaseTask(n) EXCEPT !.dependsOn = (D :> <<"bundle">>)]
          [] n = C -> [BaseTask(n) EXCEPT !.dependsOn = (D :> <<"bundle">>)]
          [] OTHER -> BaseTask(n)]

\* A -> B, with templates that do not render: B's script refers to a key
\* the map lacks, C's icon path is malformed
Broken ==
    [n \in Tasks |->
        CASE n = A -> [BaseTask(n) EXCEPT !.dependsOn = (B :> <<"deps", "b">>)]
          [] n = B -> [BaseTask(n) EXCEPT
                         !.packagingScriptTemplate = <<Lit("pack "), Ref("flavor")>>]
          [] n = C -> [BaseTask(n) EXCEPT !.linuxDesktopFileIconPath = <<Bad>>]
          [] OTHER -> BaseTask(n)]

Tables == {Chain, Diamond, Broken}

\* A -> {B, D}, B -> C, C -> B: a cycle that A reaches without being on it
Cyclic ==
    [n \in Tasks |->
        CASE n = A -> [BaseTask(n) EXCEPT
                         !.dependsOn = (B :> <<"deps", "b">>) @@ (D :> <<"bundle">>)]
          [] n = B -> [BaseTask(n) EXCEPT !.dependsOn = (C :> <<"deps", "c">>)]
          [] n = C -> [BaseTask(n) EXCEPT !.dependsOn = (B :> <<"deps", "b">>)]
          [] OTHER -> BaseTask(n)]

TablesWithCycle == {Chain, Diamond, Cyclic}

Deps(n) == DOMAIN task[n].dependsOn

----------------------------------------------------------------------------
\* Filesystem and process helpers

\* os.Stat(packagingFormatPath(name)): nil when the directory is there,
\* ENOENT when it is not, or another error (EACCES, ENOTDIR, ...) either way
StatOutcomes(n) ==
    IF cfgDir[n].exists THEN {"nil", "EOTHER"} ELSE {"ENOENT", "EOTHER"}

\* mutant: the negation is lost
IsInitializedInverted(err) == err = "ENOENT"

\* IsInitialized: !os.IsNotExist(err)
IsInitialized(err) == err # "ENOENT"

\* mutant: outputFileContainsVersion is read negated
OutputFileNameFlipped(t, buildVersion) ==
    LET base == IF t.outputFileUsesApplicationName
                THEN ApplicationName ELSE PackageName
        ver  == IF ~t.outputFileContainsVersion
                THEN (IF t.outputFileUsesApplicationName THEN <<" ">> ELSE <<"-">>)
                     \o buildVersion
                ELSE <<>>
    IN  base \o ver \o <<".", t.outputFileExtension>>

\* the final artifact's file name (Pack, lines 205-219)
OutputFileName(t, buildVersion) ==
    LET base == IF t.outputFileUsesApplicationName
                THEN ApplicationName ELSE PackageName
        ver  == IF t.outputFileContainsVersion
                THEN (IF t.outputFileUsesApplicationName THEN <<" ">> ELSE <<"-">>)
                     \o buildVersion
                ELSE <<>>
    IN  base \o ver \o <<".", t.outputFileExtension>>

Event(e, n, d, id) == [e |-> e, t |-> n, d |-> d, n |-> id]

Top == stack[Len(stack)]

\* mutant: the task goes on without waiting for its dependencies
DepsDoneEarly(f) == TRUE

\* the first loop of init and Pack has visited every key of dependsOn
DepsDone(f) == f.todo = {}

\* mutant: the second loop is skipped
CopyTargetsNone(n) == {}

\* the keys the second loop of Pack ranges over
CopyTargets(n) == Deps(n)

\* mutant: a task that has been packed in this invocation is not called again
FrameMemo(op, n, ignore, v) ==
    [op |-> op, t |-> n, pc |-> "deps",
     todo |-> {d \in Deps(n) :
                  \A i \in DOMAIN trace : ~(trace[i].e = "ret" /\ trace[i].t = d)},
     ignore |-> ignore, v |-> v, tmp |-> 0, copies |-> {}, files |-> {}, i |-> 1]

\* a new activation of init or Pack: its first loop has all of dependsOn to visit
Frame(op, n, ignore, v) ==
    [op |-> op, t |-> n, pc |-> "deps", todo |-> Deps(n), ignore |-> ignore,
     v |-> v, tmp |-> 0, copies |-> {}, files |-> {}, i |-> 1]

SetTop(f) == [stack EXCEPT ![Len(stack)] = f]

Pop == SubSeq(stack, 1, Len(stack) - 1)

\* mutant: the failure only returns from the function that met it
ExitReturns(tr, reason) ==
    /\ stack' = Pop
    /\ trace' = Append(tr, Event("exit", Top.t, reason, Top.tmp))
    /\ IF Len(stack) = 1
       THEN status' = "idle" /\ result' = reason
       ELSE UNCHANGED <<status, result>>

\* os.Exit(1): the process ends at once; deferred functions do not run
ExitAfter(tr, reason) ==
    /\ status' = "exited"
    /\ result' = reason
    /\ stack' = <<>>
    /\ trace' = Append(tr, Event("exit", Top.t, reason, Top.tmp))

Exit(reason) == ExitAfter(trace, reason)

\* mutant: the removal is dropped
RemoveAllKeeps(dirs, id) == dirs

\* os.RemoveAll(tmpPath) on the temporary directories
RemoveAll(dirs, id) == [x \in DOMAIN dirs \ {id} |-> dirs[x]]

\* panic(err): the stack unwinds and the deferred functions run; only the
\* top frame can have one registered (its callers are still in their first
\* loop).  A failing os.RemoveAll there ends the process with os.Exit
Panic(dirs) ==
    /\ stack' = <<>>
    /\ result' = "exec"
    /\ trace' = Append(trace, Event("panic", Top.t, "exec", Top.tmp))
    /\ \E removed \in BOOLEAN :
          IF removed \/ Top.tmp = 0
          THEN /\ status' = "panicked"
               /\ tmpDirs' = RemoveAll(dirs, Top.tmp)
          ELSE /\ status' = "exited"
               /\ tmpDirs' = dirs

\* a return from the top frame: back to the caller, or the call is over
ReturnAfter(tr, ev) ==
    /\ stack' = Pop
    /\ trace' = Append(tr, ev)
    /\ IF Len(stack) = 1
       THEN status' = "idle" /\ result' = "ok"
       ELSE UNCHANGED <<status, result>>

Return(ev) == ReturnAfter(trace, ev)

\* the effect of a getTemplateData call on the Once and the map
Fetched(g) == once' = TRUE /\ templateData' = g.data

\* a render that did not return: os.Exit on a parse error, panic otherwise
RenderFailed(r) ==
    /\ Fetched(r)
    /\ IF r.err = "parse"
       THEN Exit("parse") /\ UNCHANGED tmpDirs
       ELSE Panic(tmpDirs)

----------------------------------------------------------------------------
\* Initial state: a table is configured, any set of formats is already
\* initialised (fully scaffolded), nothing has been built yet

Scaffolded(n) == {task[n].templateFiles[src] : src \in DOMAIN task[n].templateFiles}

InitWith(tables, initialised) ==
    /\ task \in tables
    /\ \E done \in initialised :
          cfgDir = [n \in Tasks |->
                      IF n \in done
                      THEN [exists |-> TRUE, files |-> Scaffolded(n)]
                      ELSE [exists |-> FALSE, files |-> {}]]
    /\ outDir = [n \in Tasks |-> {}]
    /\ tmpDirs = <<>>
    /\ nextTmp = 0
    /\ once = FALSE
    /\ templateData = <<>>
    /\ stack = <<>>
    /\ status = "idle"
    /\ result = "none"
    /\ call = [op |-> "none", t |-> A, v |-> <<>>]
    /\ prev = "none"
    /\ trace = <<>>
    /\ calls = 0

Init == InitWith(Tables, SUBSET Tasks)

----------------------------------------------------------------------------
\* Top-level calls

Idle == status = "idle" /\ calls < MaxCalls

Begin(op, n, v) ==
    /\ calls' = calls + 1
    /\ call' = [op |-> op, t |-> n, v |-> v]
    /\ prev' = IF call.op = "Init" /\ result = "ok" THEN call.t ELSE "none"

\* mutant: Init passes true
InitIgnoresTrue == TRUE

\* the argument Init passes to init: t.init(false)
InitIgnores == FALSE

\* t.Init()
CallInit(n) ==
    /\ Idle
    /\ Begin("Init", n, <<>>)
    /\ status' = "running"
    /\ result' = "none"
    /\ stack' = <<Frame("init", n, InitIgnores, <<>>)>>
    /\ trace' = <<Event("call", n, "", 0)>>
    /\ UNCHANGED <<task, cfgDir, outDir, tmpDirs, nextTmp, once, templateData>>

\* t.Pack(buildVersion)
CallPack(n, v) ==
    /\ Idle
    /\ Begin("Pack", n, v)
    /\ status' = "running"
    /\ result' = "none"
    /\ stack' = <<Frame("pack", n, FALSE, v)>>
    /\ trace' = <<Event("call", n, "", 0)>>
    /\ UNCHANGED <<task, cfgDir, outDir, tmpDirs, nextTmp, once, templateData>>

\* t.AssertInitialized()
AssertInitialized(n) ==
    /\ Idle
    /\ Begin("Assert", n, <<>>)
    /\ stack' = <<>>
    /\ \E err \in StatOutcomes(n) :
          IF task[n].skipAssertInitialized \/ IsInitialized(err)
          THEN /\ status' = "idle"
               /\ result' = "ok"
               /\ trace' = <<Event("assert", n, "ok", 0)>>
          ELSE /\ status' = "exited"
               /\ result' = "NotInitialized"
               /\ trace' = <<Event("assert", n, "NotInitialized", 0)>>
    /\ UNCHANGED <<task, cfgDir, outDir, tmpDirs, nextTmp, once, templateData>>

\* the command ends and another one is started: a new process, with a fresh
\* Once and an empty map; the filesystem stays as it is
NewProcess ==
    /\ status \in {"exited", "panicked", "crashed"} \/ (status = "idle" /\ once)
    /\ calls < MaxCalls
    /\ status' = "idle"
    /\ once' = FALSE
    /\ templateData' = <<>>
    /\ stack' = <<>>
    /\ UNCHANGED <<task, cfgDir, outDir, tmpDirs, nextTmp, result, call, prev, trace, calls>>

----------------------------------------------------------------------------
\* init(ignoreAlreadyExists)

InInit(pc) == status = "running" /\ Top.op = "init" /\ Top.pc = pc

\* mutant: the recursive call does not suppress the failure
DepIgnoresFalse == FALSE

\* the argument of the recursive call: task.init(true)
DepIgnores == TRUE

\* for task := range t.dependsOn { task.init(true) }
InitDeps ==
    /\ InInit("deps") /\ ~DepsDone(Top) /\ Len(stack) < MaxDepth
    /\ \E d \in Top.todo :
          /\ stack' = Append(SetTop([Top EXCEPT !.todo = @ \ {d}]),
                             Frame("init", d, DepIgnores, <<>>))
          /\ trace' = Append(trace, Event("call", d, Top.t, 0))
    /\ UNCHANGED <<task, cfgDir, outDir, tmpDirs, nextTmp, once, templateData,
                   status, result, call, prev, calls>>

\* if !t.IsInitialized() { ... } else if !ignoreAlreadyExists { os.Exit(1) }
InitCheck ==
    /\ InInit("deps") /\ DepsDone(Top)
    /\ \E err \in StatOutcomes(Top.t) :
          LET tr == Append(trace, Event("stat", Top.t, err, 0))
          IN  IF ~IsInitialized(err)
              THEN /\ stack' = SetTop([Top EXCEPT !.pc = "mkdir"])
                   /\ trace' = tr
                   /\ UNCHANGED <<status, result>>
              ELSE IF Top.ignore
                   THEN ReturnAfter(tr, Event("skip", Top.t, "", 0))
                   ELSE ExitAfter(tr, "AlreadyInitialized")
    /\ UNCHANGED <<task, cfgDir, outDir, tmpDirs, nextTmp, once, templateData,
                   call, prev, calls>>

\* createPackagingFormatDirectory
InitMkdir ==
    /\ InInit("mkdir")
    /\ \E err \in StatOutcomes(Top.t), ok \in BOOLEAN :
          IF err # "ENOENT" THEN Exit("exists") /\ UNCHANGED cfgDir
          ELSE IF ok
          THEN /\ cfgDir' = [cfgDir EXCEPT ![Top.t] = [exists |-> TRUE, files |-> {}]]
               /\ stack' = SetTop([Top EXCEPT !.pc = "assets",
                                              !.files = DOMAIN task[Top.t].templateFiles])
               /\ trace' = Append(trace, Event("mkdir", Top.t, "", 0))
               /\ UNCHANGED <<status, result>>
          ELSE Exit("fs") /\ UNCHANGED cfgDir
    /\ UNCHANGED <<task, outDir, tmpDirs, nextTmp, once, templateData, call, prev, calls>>

\* one iteration of: for sourceFile, destinationFile := range t.templateFiles
InitCopyAsset ==
    /\ InInit("assets") /\ Top.files # {}
    /\ \E src \in Top.files, ok \in BOOLEAN :
          IF ok
          THEN /\ cfgDir' = [cfgDir EXCEPT ![Top.t].files =
                                @ \cup {task[Top.t].templateFiles[src]}]
               /\ stack' = SetTop([Top EXCEPT !.files = @ \ {src}])
               /\ trace' = Append(trace, Event("asset", Top.t, src, 0))
               /\ UNCHANGED <<status, result>>
          ELSE Exit("fs") /\ UNCHANGED cfgDir
    /\ UNCHANGED <<task, outDir, tmpDirs, nextTmp, once, templateData, call, prev, calls>>

\* the loop is over: the two log lines, and init returns
InitReturn ==
    /\ InInit("assets") /\ Top.files = {}
    /\ Return(Event("created", Top.t, "", 0))
    /\ UNCHANGED <<task, cfgDir, outDir, tmpDirs, nextTmp, once, templateData,
                   call, prev, calls>>

----------------------------------------------------------------------------
\* Pack(buildVersion)

InPack(pc) == status = "running" /\ Top.op = "pack" /\ Top.pc = pc

Me == task[Top.t]

\* files of the top frame's temporary directory
TmpAdd(files) == [tmpDirs EXCEPT ![Top.tmp] = @ \cup files]

\* for task := range t.dependsOn { task.Pack(buildVersion) }
PackDeps ==
    /\ InPack("deps") /\ ~DepsDone(Top) /\ Len(stack) < MaxDepth
    /\ \E d \in Top.todo :
          /\ stack' = Append(SetTop([Top EXCEPT !.todo = @ \ {d}]),
                             Frame("pack", d, FALSE, Top.v))
          /\ trace' = Append(trace, Event("call", d, Top.t, 0))
    /\ UNCHANGED <<task, cfgDir, outDir, tmpDirs, nextTmp, once, templateData,
                   status, result, call, prev, calls>>

\* tmpPath := getTemporaryBuildDirectory(...); defer os.RemoveAll(tmpPath)
PackAlloc ==
    /\ InPack("deps") /\ DepsDone(Top)
    /\ \E ok \in BOOLEAN :
          IF ok
          THEN /\ nextTmp' = nextTmp + 1
               /\ tmpDirs' = tmpDirs @@ (nextTmp + 1 :> {})
               /\ stack' = SetTop([Top EXCEPT !.pc = "build", !.tmp = nextTmp + 1])
               /\ trace' = Append(trace, Event("alloc", Top.t, "", nextTmp + 1))
               /\ UNCHANGED <<status, result>>
          ELSE Exit("fs") /\ UNCHANGED <<nextTmp, tmpDirs>>
    /\ UNCHANGED <<task, cfgDir, outDir, once, templateData, call, prev, calls>>

\* if t.buildOutputDirectory != "" { copy.Copy(build output, rendered path) }
PackCopyBuild ==
    /\ InPack("build")
    /\ IF Me.buildOutputDirectory = <<>>
       THEN /\ stack' = SetTop([Top EXCEPT !.pc = "copydeps", !.copies = CopyTargets(Top.t)])
            /\ UNCHANGED <<tmpDirs, once, templateData, status, result, trace>>
       ELSE LET r == RenderWith(Me, Me.buildOutputDirectory, Top.v)
            IN  IF r.err # "none" THEN RenderFailed(r)
                ELSE /\ Fetched(r)
                     /\ \E ok \in BOOLEAN :
                           IF ok
                           THEN /\ tmpDirs' = TmpAdd({r.out})
                                /\ stack' = SetTop([Top EXCEPT !.pc = "copydeps",
                                                               !.copies = CopyTargets(Top.t)])
                                /\ trace' = Append(trace, Event("copybuild", Top.t, "", Top.tmp))
                                /\ UNCHANGED <<status, result>>
                           ELSE Exit("fs") /\ UNCHANGED tmpDirs
    /\ UNCHANGED <<task, cfgDir, outDir, nextTmp, call, prev, calls>>

\* one iteration of: for task, destination := range t.dependsOn { copy.Copy }
\* (the copy fails when the dependency's output directory is not there)
PackCopyDep ==
    /\ InPack("copydeps") /\ Top.copies # {}
    /\ \E d \in Top.copies, ok \in BOOLEAN :
          IF ok /\ outDir[d] # {}
          THEN /\ tmpDirs' = TmpAdd({Me.dependsOn[d]})
               /\ stack' = SetTop([Top EXCEPT !.copies = @ \ {d}])
               /\ trace' = Append(trace, Event("copydep", Top.t, d, Top.tmp))
               /\ UNCHANGED <<status, result>>
          ELSE Exit("fs") /\ UNCHANGED tmpDirs
    /\ UNCHANGED <<task, cfgDir, outDir, nextTmp, once, templateData, call, prev, calls>>

\* the names of the configuration directory's files, rendered
RenderedNames(n, data) ==
    {executeStringTemplate(f, data) : f \in cfgDir[n].files}

\* fileutils.CopyTemplateDir(packagingFormatPath(name), tmpPath, templateData)
\* and, when set, t.generateBuildFiles(packageName, tmpPath)
PackCopyTemplate ==
    /\ InPack("copydeps") /\ Top.copies = {}
    /\ LET g == getTemplateData(Me, ProjectName, Top.v)
           names == RenderedNames(Top.t, g.data)
       IN  IF g.err # "none" THEN RenderFailed(g)
           ELSE /\ Fetched(g)
                /\ \E ok \in BOOLEAN :
                      IF ok /\ cfgDir[Top.t].exists /\ \A r \in names : r.err = "none"
                      THEN /\ tmpDirs' = TmpAdd({r.out : r \in names}
                                  \cup IF Me.generateBuildFiles THEN {<<"generated">>} ELSE {})
                           /\ stack' = SetTop([Top EXCEPT !.pc = "chmod", !.i = 1])
                           /\ trace' = Append(trace, Event("templ", Top.t, "", Top.tmp))
                           /\ UNCHANGED <<status, result>>
                      ELSE Exit("fs") /\ UNCHANGED tmpDirs
    /\ UNCHANGED <<task, cfgDir, outDir, nextTmp, call, prev, calls>>

\* one iteration of: for _, file := range t.executableFiles { os.Chmod }
PackChmod ==
    /\ InPack("chmod") /\ Top.i <= Len(Me.executableFiles)
    /\ LET r == RenderWith(Me, Me.executableFiles[Top.i], Top.v)
       IN  IF r.err # "none" THEN RenderFailed(r)
           ELSE /\ Fetched(r)
                /\ \E ok \in BOOLEAN :
                      IF ok /\ r.out \in tmpDirs[Top.tmp]
                      THEN /\ stack' = SetTop([Top EXCEPT !.i = @ + 1])
                           /\ trace' = Append(trace, Event("chmod", Top.t, "", Top.tmp))
                           /\ UNCHANGED <<status, result, tmpDirs>>
                      ELSE Exit("fs") /\ UNCHANGED tmpDirs
    /\ UNCHANGED <<task, cfgDir, outDir, nextTmp, call, prev, calls>>

\* mutant: the output directory is not cleaned
RemoveOutputKeeps(files) == files

\* os.RemoveAll(build.OutputDirectoryPath(...)) on the directory's files
RemoveOutput(files) == {}

\* err := os.RemoveAll(build.OutputDirectoryPath(t.packagingFormatName))
PackClean ==
    /\ InPack("chmod") /\ Top.i > Len(Me.executableFiles)
    /\ \E ok \in BOOLEAN :
          IF ok
          THEN /\ outDir' = [outDir EXCEPT ![Top.t] = RemoveOutput(@)]
               /\ stack' = SetTop([Top EXCEPT !.pc = "script"])
               /\ trace' = Append(trace, Event("clean", Top.t,
                                  IF outDir[Top.t] = {} THEN "" ELSE "stale", Top.tmp))
               /\ UNCHANGED <<status, result>>
          ELSE Exit("fs") /\ UNCHANGED outDir
    /\ UNCHANGED <<task, cfgDir, tmpDirs, nextTmp, once, templateData, call, prev, calls>>

\* what a packaging script that exits zero may leave in its directory: a
\* package under one of the names packaging tools give it
ScriptOutputs(n, v) ==
    {base \o <<".", task[n].outputFileExtension>> :
        base \in {ApplicationName, ApplicationName \o <<" ">> \o v,
                  PackageName, PackageName \o <<"-">> \o v}}

\* packagingScript := executeStringTemplate(...); runPackaging(tmpPath, packagingScript)
PackScript ==
    /\ InPack("script")
    /\ LET r == RenderWith(Me, Me.packagingScriptTemplate, Top.v)
       IN  IF r.err # "none" THEN RenderFailed(r)
           ELSE /\ Fetched(r)
                /\ \/ Exit("script") /\ UNCHANGED tmpDirs
                   \/ \E made \in ScriptOutputs(Top.t, Top.v) :
                         /\ tmpDirs' = TmpAdd({made})
                         /\ stack' = SetTop([Top EXCEPT !.pc = "artifact"])
                         /\ trace' = Append(trace, Event("script", Top.t, "", Top.tmp))
                         /\ UNCHANGED <<status, result>>
    /\ UNCHANGED <<task, cfgDir, outDir, nextTmp, call, prev, calls>>

\* a file that copy.Copy created and did not finish writing
Truncated(name) == name \o <<"(truncated)">>

\* what a failed copy.Copy leaves at the destination: nothing (the source
\* is missing, the file cannot be created) or, when there is a source to
\* read, a file cut short
FailedCopy(files, name, present) ==
    IF present THEN {files, files \cup {Truncated(name)}} ELSE {files}

\* outputFileName; outputFilePath; copy.Copy(tmpPath/outputFileName, outputFilePath)
PackArtifact ==
    /\ InPack("artifact")
    /\ LET name == OutputFileName(Me, Top.v)
           r == RenderWith(Me, AsTemplate(name), Top.v)
       IN  IF r.err # "none" THEN RenderFailed(r) /\ UNCHANGED outDir
           ELSE /\ Fetched(r)
                /\ \E ok \in BOOLEAN :
                      IF ok /\ name \in tmpDirs[Top.tmp]
                      THEN /\ outDir' = [outDir EXCEPT ![Top.t] = @ \cup {r.out}]
                           /\ stack' = SetTop([Top EXCEPT !.pc = "ret"])
                           /\ trace' = Append(trace, Event("artifact", Top.t, "", Top.tmp))
                           /\ UNCHANGED <<status, result, tmpDirs>>
                      ELSE /\ Exit("fs") /\ UNCHANGED tmpDirs
                           /\ \E left \in FailedCopy(outDir[Top.t], r.out,
                                                   name \in tmpDirs[Top.tmp]) :
                                 outDir' = [outDir EXCEPT ![Top.t] = left]
    /\ UNCHANGED <<task, cfgDir, nextTmp, call, prev, calls>>

\* Pack returns: the deferred os.RemoveAll(tmpPath) runs
PackReturn ==
    /\ InPack("ret")
    /\ \E ok \in BOOLEAN :
          IF ok
          THEN /\ tmpDirs' = RemoveAll(tmpDirs, Top.tmp)
               /\ Return(Event("ret", Top.t, "", Top.tmp))
          ELSE Exit("defer") /\ UNCHANGED tmpDirs
    /\ UNCHANGED <<task, cfgDir, outDir, nextTmp, once, templateData, call, prev, calls>>

----------------------------------------------------------------------------

Next ==
    \/ \E n \in Tasks : CallInit(n)
    \/ \E n \in Tasks, v \in Versions : CallPack(n, v)
    \/ \E n \in Tasks : AssertInitialized(n)
    \/ NewProcess
    \/ InitDeps
    \/ InitCheck
    \/ InitMkdir
    \/ InitCopyAsset
    \/ InitReturn
    \/ PackDeps
    \/ PackAlloc
    \/ PackCopyBuild
    \/ PackCopyDep
    \/ PackCopyTemplate
    \/ PackChmod
    \/ PackClean
    \/ PackScript
    \/ PackArtifact
    \/ PackReturn

Spec == Init /\ [][Next]_vars

----------------------------------------------------------------------------
\* Tables with a dependency cycle.  Neither init nor Pack looks for one: the
\* first loop calls into the cycle again and again, each call a new stack
\* frame, until the goroutine stack reaches its limit and the runtime ends
\* the process (fatal error: stack overflow; no deferred function runs).

StackOverflow ==
    /\ status = "running" /\ Top.pc = "deps" /\ ~DepsDone(Top)
    /\ Len(stack) >= MaxDepth
    /\ status' = "crashed"
    /\ result' = "overflow"
    /\ stack' = <<>>
    /\ trace' = Append(trace, Event("overflow", Top.t, "", 0))
    /\ UNCHANGED <<task, cfgDir, outDir, tmpDirs, nextTmp, once, templateData,
                   call, prev, calls>>

\* a step of the call that is running
Step ==
    \/ InitDeps \/ InitCheck \/ InitMkdir \/ InitCopyAsset \/ InitReturn
    \/ PackDeps \/ PackAlloc \/ PackCopyBuild \/ PackCopyDep
    \/ PackCopyTemplate \/ PackChmod \/ PackClean \/ PackScript
    \/ PackArtifact \/ PackReturn
    \/ StackOverflow

NextRecursion == Next \/ StackOverflow

\* every format initialised, or none
InitRecursion == InitWith(TablesWithCycle, {{}, Tasks})

\* the process is one sequential thread: while a call is running, and every
\* script and filesystem call returns, its next step is taken
SpecRecursion ==
    InitRecursion /\ [][NextRecursion]_vars /\ WF_vars(Step)

----------------------------------------------------------------------------
\* The two pure functions on their own: getTemplateData and
\* executeStringTemplate called directly, with the version and the template
\* drawn from bounded sets.  The filesystem and the call stack stay as Init
\* leaves them; result holds the way the last call ended, call the arguments
\* of the last render or of the getTemplateData call that built the map.

\* length of the version strings that are enumerated
MaxVersionLen == 4

VersionAtoms == {"2", "."}

\* every version of up to MaxVersionLen atoms (the empty one, ones that
\* start or end with a dot, ones with no dot), and "2.5.1"
VersionStrings ==
    UNION {[1..k -> VersionAtoms] : k \in 0..MaxVersionLen}
        \cup {<<"2", ".", "5", ".", "1">>}

TemplateTokens ==
    {Lit("a"), Ref("version"), Ref("iconPath"), Ref("flavor"), Bad}

\* template strings of up to two tokens
TemplateStrings ==
    UNION {[1..k -> TemplateTokens] : k \in 0..2}

\* how a call of one of the two functions ends: it returns, the process ends
\* in os.Exit(1) (parse error), or it panics (execution error)
Ended(err) ==
    /\ status' = CASE err = "none" -> "idle"
                   [] err = "parse" -> "exited"
                   [] OTHER -> "panicked"
    /\ result' = IF err = "none" THEN "ok" ELSE err

\* t.getTemplateData(projectName, buildVersion)
TemplateData(n, v) ==
    /\ Idle
    /\ LET g == getTemplateData(task[n], ProjectName, v)
       IN  Fetched(g) /\ Ended(g.err)
    /\ calls' = calls + 1
    /\ call' = IF once THEN call ELSE [op |-> "getTemplateData", t |-> n, v |-> v]
    /\ UNCHANGED <<task, cfgDir, outDir, tmpDirs, nextTmp, stack, prev, trace>>

\* executeStringTemplate(x, templateData), once the map is there
Render(x) ==
    /\ Idle /\ once
    /\ LET r == executeStringTemplate(x, templateData)
       IN  /\ Ended(r.err)
           /\ call' = [op |-> "render", t |-> x, v |-> r.out]
    /\ calls' = calls + 1
    /\ UNCHANGED <<task, cfgDir, outDir, tmpDirs, nextTmp, stack, prev, trace,
                   once, templateData>>

NextTemplates ==
    \/ \E n \in Tasks, v \in VersionStrings : TemplateData(n, v)
    \/ \E x \in TemplateStrings : Render(x)
    \/ NewProcess

\* the table whose tasks have every kind of path template: ones that
\* render, empty ones, a malformed one; no packaging format is initialised
\* (the two functions never look)
InitTemplates == InitWith({Broken}, {{}})

SpecTemplates == InitTemplates /\ [][NextTemplates]_vars

----------------------------------------------------------------------------
\* Properties

\* the tasks reachable from n through dependsOn (four tasks: four rounds)
Reach(n) ==
    LET step(S) == S \cup UNION {Deps(x) : x \in S}
    IN  step(step(step(step(Deps(n)))))

Last == trace[Len(trace)]

Events(e) == {i \in DOMAIN trace : trace[i].e = e}

PackEnded == call.op = "Pack" /\ status # "running" /\ trace # <<>>

\* C1: whenever Pack ends through a failure path (os.Exit after a script,
\* copy, chmod or clean failure) after its temporary build directory was
\* allocated, that directory no longer exists.
C1_FailedPackRemovesTmp ==
    (PackEnded /\ Last.e = "exit" /\ Last.d \in {"script", "fs"} /\ Last.n # 0)
        => Last.n \notin DOMAIN tmpDirs

\* C2: after a successful Pack, no temporary build directory allocated during
\* that invocation (the task's own or a dependency's) still exists.
C2_SuccessfulPackLeavesNoTmp ==
    (PackEnded /\ result = "ok")
        => \A i \in Events("alloc") : trace[i].n \notin DOMAIN tmpDirs

C2_Witness ==
    /\ PackEnded /\ result = "ok" /\ task = Diamond /\ call.t = A
    /\ Cardinality(Events("alloc")) = 5

\* the call event that started the invocation event i belongs to
CallIdx(i) ==
    CHOOSE c \in 1..i :
        /\ trace[c].e = "call" /\ trace[c].t = trace[i].t
        /\ \A j \in (c + 1)..i : ~(trace[j].e = "call" /\ trace[j].t = trace[i].t)

ScriptOrder ==
    LET sel == SelectSeq(trace, LAMBDA ev : ev.e = "script")
    IN  [i \in DOMAIN sel |-> sel[i].t]

\* C3: when a task X performs one of its own steps in Pack (allocation,
\* copies, template copy, chmod, clean, script, artifact, return), every task
\* D reachable from X has been packed completely inside this invocation of X
\* (script run, artifact relocated, Pack returned), every step of D precedes
\* X's first own step, and for the chain A -> B -> C the scripts run C, B, A.
\* The trace only grows, so the property is stated for its latest event.
C3_DependenciesPackedFirst ==
    (call.op = "Pack" /\ trace # <<>> /\ Last.e # "call") =>
        LET i == Len(trace)
            c == CallIdx(i)
            before == (c + 1)..(i - 1)
        IN  /\ \A d \in Reach(Last.t) :
                /\ \E j \in before : trace[j].t = d /\ trace[j].e = "script"
                /\ \E j \in before : trace[j].t = d /\ trace[j].e = "artifact"
                /\ \A j \in before : trace[j].t = d =>
                      \E k \in j..(i - 1) : trace[k].t = d /\ trace[k].e = "ret"
                /\ \A j \in before : (trace[j].t = Last.t /\ trace[j].e # "call") =>
                      \A k \in j..(i - 1) : trace[k].t # d
            /\ (task = Chain /\ call.t = A /\ result = "ok")
                  => ScriptOrder = <<C, B, A>>

C3_Witness ==
    /\ PackEnded /\ result = "ok" /\ task = Chain /\ call.t = A
    /\ ScriptOrder = <<C, B, A>>

InitEnded == call.op = "Init" /\ status # "running" /\ trace # <<>>

\* the configuration directory of n was there when the current call began
ExistedAtCall(n) == cfgDir[n].exists /\ \A i \in Events("mkdir") : trace[i].t # n

Touched(n) == \E i \in Events("mkdir") \cup Events("asset") : trace[i].t = n

NoFsError ==
    /\ result \notin {"fs", "exists"}
    /\ \A i \in Events("stat") : trace[i].d # "EOTHER"

C6_NoPartialConfigurationDirectory ==
    InitEnded =>
        \A n \in Tasks : cfgDir[n].exists => Scaffolded(n) \subseteq cfgDir[n].files

\* C7: AssertInitialized(T) fails with the not-initialized error if and only
\* if skipAssertInitialized is false and T's configuration directory does not
\* exist.
C7_AssertFailsIffAbsent ==
    call.op = "Assert" =>
        ((result = "NotInitialized")
            <=> (~task[call.t].skipAssertInitialized /\ ~cfgDir[call.t].exists))

\* C8: the template data is computed once per process: the first
\* getTemplateData call fills it with the projectName, version and release of
\* that call; every later call, whatever its task and arguments, returns that
\* map, and no step of the process changes any entry of it.
C8_TemplateDataComputedOnce ==
    [][/\ (once /\ once') => templateData' = templateData
       /\ once => \A n \in Tasks, v \in Versions :
             getTemplateData(task[n], ProjectName, v).data = templateData
       /\ (~once /\ once') =>
             /\ templateData'["projectName"] = ProjectName
             /\ templateData'["version"] = Top.v
             /\ templateData'["release"] = SplitFirst(Top.v)]_vars

C8_Witness ==
    /\ once /\ status = "running" /\ Top.op = "pack" /\ Top.pc = "artifact"
    /\ Top.v # templateData["version"]

\* the artifact name as the specification words it
ClaimedName(t, v) ==
    CASE t.outputFileUsesApplicationName /\ t.outputFileContainsVersion ->
            ApplicationName \o <<" ">> \o v \o <<".", t.outputFileExtension>>
      [] t.outputFileUsesApplicationName /\ ~t.outputFileContainsVersion ->
            ApplicationName \o <<".", t.outputFileExtension>>
      [] ~t.outputFileUsesApplicationName /\ t.outputFileContainsVersion ->
            PackageName \o <<"-">> \o v \o <<".", t.outputFileExtension>>
      [] OTHER -> PackageName \o <<".", t.outputFileExtension>>

\* C9: after a successful Pack(T, v) the output directory of T, and of every
\* task packed on the way, holds exactly the artifact named base [sep v] "."
\* extension, copied there from the temporary directory; e.g. MyApp 1.2.3.dmg
\* and my_app-1.2.3.deb.
C9_ArtifactName ==
    (PackEnded /\ result = "ok") =>
        /\ \A i \in Events("ret") :
              /\ outDir[trace[i].t] = {ClaimedName(task[trace[i].t], call.v)}
              /\ \E j \in Events("artifact") : j < i /\ trace[j].n = trace[i].n
        /\ (call.t = A /\ call.v = <<"1", ".", "2", ".", "3">>) =>
              outDir[A] = {<<"MyApp", " ", "1", ".", "2", ".", "3", ".", "dmg">>}
        /\ (call.t = B /\ call.v = <<"1", ".", "2", ".", "3">>) =>
              outDir[B] = {<<"my_app", "-", "1", ".", "2", ".", "3", ".", "deb">>}

C9_Witness ==
    /\ PackEnded /\ result = "ok" /\ call.t = A
    /\ outDir[A] = {<<"MyApp", " ", "1", ".", "2", ".", "3", ".", "dmg">>}
    /\ outDir[B] = {<<"my_app", "-", "1", ".", "2", ".", "3", ".", "deb">>}

\* the dependency-output copies made by the invocation that owns directory m
Copies(m) == {j \in Events("copydep") : trace[j].n = m}

\* C10: an invocation of Pack(X) copies the output of a dependency only for
\* an entry of X.dependsOn, at most once per entry, into the entry's
\* destination inside X's temporary directory, and only after that
\* dependency's Pack has returned inside this invocation; when it returns it
\* has made exactly one copy per entry (none for an empty dependsOn).
C10_OneCopyPerDependency ==
    call.op = "Pack" =>
        \A a \in Events("alloc") :
            LET X == trace[a].t
                m == trace[a].n
            IN  /\ \A j \in Copies(m) :
                      /\ trace[j].t = X /\ trace[j].d \in Deps(X) /\ j > a
                      /\ \E k \in CallIdx(a)..a :
                            trace[k].e = "ret" /\ trace[k].t = trace[j].d
                      /\ \A k \in Copies(m) : trace[k].d = trace[j].d => k = j
                      /\ m \in DOMAIN tmpDirs =>
                            task[X].dependsOn[trace[j].d] \in tmpDirs[m]
                /\ (\E r \in Events("ret") : trace[r].n = m) =>
                      {trace[j].d : j \in Copies(m)} = Deps(X)

C10_Witness ==
    /\ PackEnded /\ result = "ok" /\ task = Diamond /\ call.t = A
    /\ Cardinality(Events("copydep")) = 4
    /\ \E a \in Events("alloc") : trace[a].t = D /\ Copies(trace[a].n) = {}

\* the template of the last render refers to a key the map lacks
RefersToMissingKey(x) ==
    \E i \in DOMAIN x : x[i].k = "ref" /\ x[i].v \notin DOMAIN templateData

\* C11: rendering a template that refers to a key absent from the context
\* fails, hands no string (in particular no partially substituted one) to
\* the caller, and ends the call the way a malformed template ends it.
C11_MissingKeyFailsLikeMalformed ==
    (call.op = "render" /\ RefersToMissingKey(call.t)) =>
        /\ result # "ok" /\ status # "idle"
        /\ call.v = <<>>
        /\ result = executeStringTemplate(<<Bad>>, templateData).err

\* r is the first dot-separated segment of v
IsFirstSegment(r, v) ==
    /\ Len(r) <= Len(v)
    /\ \A i \in DOMAIN r : r[i] = v[i] /\ r[i] # "."
    /\ Len(r) = Len(v) \/ v[Len(r) + 1] = "."

\* C12: once the template data has been computed, its release entry is the
\* first dot-separated segment of the buildVersion of the call that computed
\* it: "2.5.1" gives "2", a version with no dot gives the whole version, a
\* version that starts with a dot and the empty version give the empty string.
C12_ReleaseIsFirstSegment ==
    (once /\ call.op = "getTemplateData") =>
        LET v == call.v
            r == templateData["release"]
        IN  /\ IsFirstSegment(r, v)
            /\ v = <<"2", ".", "5", ".", "1">> => r = <<"2">>
            /\ (\A i \in DOMAIN v : v[i] # ".") => r = v
            /\ (v = <<>> \/ v[1] = ".") => r = <<>>

C12_Witness ==
    /\ once /\ call.op = "getTemplateData"
    /\ call.v = <<"2", ".", "5", ".", "1">>
    /\ templateData["release"] = <<"2">>

Failures == Events("exit") \cup Events("panic")

\* the invocations of Pack that have been entered and have not returned
\* when event i happens: the task and the index of its call event
OpenAt(i) ==
    {c \in 1..i : /\ trace[c].e = "call"
                  /\ \A j \in c..i : ~(trace[j].e = "ret" /\ trace[j].t = trace[c].t)}

\* C13: when the Pack of a task fails (script, filesystem or template
\* failure), the invocation is over: no step of any task follows the
\* failure, and every task whose Pack was waiting for it (each of which
\* reaches the failing task through dependsOn) has executed none of its own
\* steps: no temporary directory, no clean of its output directory, no
\* script, no artifact.  When the failure is the script's, the artifact step
\* of that task has not run.
C13_FailFast ==
    call.op = "Pack" =>
        \A i \in Failures :
            /\ i = Len(trace) /\ status # "running"
            /\ \A c \in OpenAt(i) : trace[c].t # trace[i].t =>
                  /\ trace[i].t \in Reach(trace[c].t)
                  /\ \A j \in (c + 1)..i : trace[j].t # trace[c].t
            /\ trace[i].d = "script" =>
                  \A j \in Events("artifact") : trace[j].n # trace[i].n

C13_Witness ==
    /\ PackEnded /\ task = Chain /\ call.t = A
    /\ Last.e = "exit" /\ Last.d = "script" /\ Last.t = C
    /\ Cardinality(OpenAt(Len(trace))) = 3

\* C14: every existence check made by init answers true exactly when the
\* task's configuration directory exists at that moment, whatever os.Stat
\* returned (nil, not-exist, or another error such as permission denied),
\* and the check itself changes nothing on the filesystem.
C14_IsInitializedIffExists ==
    call.op = "Init" =>
        \A i \in Events("stat") :
            IsInitialized(trace[i].d) <=>
                /\ cfgDir[trace[i].t].exists
                /\ \A j \in Events("mkdir") : j > i => trace[j].t # trace[i].t

\* a dependency cycle can be reached from n (n itself may be on it)
CycleReachable(n) == \E x \in Reach(n) \cup {n} : x \in Reach(x)

Calling == call.op \in {"Init", "Pack"}

\* C15 as stated: on an acyclic graph every Init and Pack terminates; when a
\* cycle can be reached from T, Init(T) and Pack(T, v) reach none of T's own
\* steps and never terminate.
C15_TerminatesIffAcyclic ==
    /\ (Calling /\ ~CycleReachable(call.t) /\ status = "running")
           ~> (status # "running")
    /\ [](Calling /\ CycleReachable(call.t) =>
            /\ status = "running"
            /\ \A i \in 2..Len(trace) : trace[i].t # call.t)

\* C15, amended: every Init and Pack ends, whatever the graph.  When a cycle
\* can be reached from T, no task that reaches the cycle (T included) takes a
\* step of its own and the call never returns: it ends with the process, by
\* the stack overflow of the recursion or by a failure in a dependency from
\* which no cycle is reachable.
C15_EndsWithoutOwnSteps ==
    /\ (status = "running") ~> (status # "running")
    /\ [](Calling /\ CycleReachable(call.t) =>
            /\ \A i \in DOMAIN trace :
                  CycleReachable(trace[i].t) => trace[i].e \in {"call", "overflow"}
            /\ result # "ok"
            /\ status # "running" =>
                  \/ result = "overflow" /\ Last.e = "overflow"
                  \/ Last.e \in {"exit", "panic"} /\ ~CycleReachable(Last.t))

C15_Witness ==
    /\ task = Cyclic /\ call.op = "Pack" /\ call.t = A
    /\ status = "crashed" /\ result = "overflow"
    /\ \E i \in Events("ret") : trace[i].t = D
    /\ Cardinality(Events("call")) > MaxDepth

\* C16: after an Init(T) that ends successfully or with the
\* already-initialized error, every task reachable from T through dependsOn
\* is initialized: its configuration directory exists, and one that was
\* not there when the call began has been scaffolded by this call.
C16_DependenciesInitialized ==
    (InitEnded /\ result \in {"ok", "AlreadyInitialized"}) =>
        \A d \in Reach(call.t) :
            /\ cfgDir[d].exists
            /\ ~ExistedAtCall(d) =>
                  Touched(d) /\ cfgDir[d].files = Scaffolded(d)

\* the events of the invocation that owns temporary directory m
Of(m, e) == {i \in Events(e) : trace[i].n = m}

\* C17: in every invocation of Pack the output directory is cleaned before
\* the script runs and the artifact is written only after the script has
\* succeeded; so when the script fails the output directory is empty, and
\* when the final copy fails it holds no artifact (at most the file the copy
\* left unfinished), also when the clean found an artifact of an earlier
\* Pack there.
C17_NoArtifactAfterFailure ==
    call.op = "Pack" =>
        /\ \A i \in Events("script") :
              \E j \in Of(trace[i].n, "clean") : j < i
        /\ \A k \in Events("artifact") :
              \E i \in Of(trace[k].n, "script") : i < k
        /\ (trace # <<>> /\ Last.e = "exit" /\ Last.d = "script") =>
              /\ Of(Last.n, "clean") # {}
              /\ outDir[Last.t] = {}
        /\ (trace # <<>> /\ Last.e = "exit" /\ Last.d = "fs"
                /\ Of(Last.n, "script") # {} /\ Last.n # 0) =>
              outDir[Last.t] \subseteq {Truncated(OutputFileName(task[Last.t], call.v))}

C17_Witness ==
    /\ PackEnded /\ Last.e = "exit" /\ Last.d = "script" /\ Last.t = call.t
    /\ \E j \in Of(Last.n, "clean") : trace[j].d = "stale"
    /\ outDir[call.t] = {}

\* the temporary directories allocated by the current invocation that are
\* still on disk
OwnTmp == {trace[i].n : i \in Events("alloc")} \cap DOMAIN tmpDirs

\* C18: while a Pack invocation runs without a failed step, and after it has
\* succeeded, at most one of the temporary directories it allocated exists;
\* when a task allocates its own, each of its dependencies has returned from
\* Pack inside this invocation and its temporary directory is gone.
C18_OneTemporaryDirectory ==
    (call.op = "Pack" /\ (status = "running" \/ result = "ok")) =>
        /\ Cardinality(OwnTmp) <= 1
        /\ \A a \in Events("alloc") : \A d \in Deps(trace[a].t) :
              \E r \in Events("ret") :
                  /\ CallIdx(a) < r /\ r < a /\ trace[r].t = d
                  /\ trace[r].n \notin DOMAIN tmpDirs

C18_Witness ==
    /\ call.op = "Pack" /\ status = "running" /\ task = Diamond
    /\ Top.t = A /\ Top.pc = "script"
    /\ Cardinality(Events("alloc")) = 5 /\ OwnTmp = {Top.tmp}

RECURSIVE Paths(_, _), PathsFrom(_, _)
\* the number of dependsOn paths from x to d (acyclic tables)
Paths(x, d) == IF x = d THEN 1 ELSE PathsFrom(Deps(x), d)

PathsFrom(S, d) ==
    IF S = {} THEN 0
    ELSE LET y == CHOOSE y \in S : TRUE
         IN  Paths(y, d) + PathsFrom(S \ {y}, d)

Times(e, n) == Cardinality({i \in Events(e) : trace[i].t = n})

\* C19: Pack keeps no record of what it has packed.  In a successful
\* Pack(T) every task is packed once per dependsOn path from T to it (called,
\* cleaned, script run, artifact written that many times); in the diamond the
\* script of the shared task runs twice and its second clean finds the first
\* artifact.  Every copy of a dependency's output is made when the last thing
\* that happened to that output directory is the writing of its artifact.
C19_PackedOncePerPath ==
    call.op = "Pack" =>
        /\ \A n \in Tasks : Times("script", n) <= Paths(call.t, n)
        /\ (PackEnded /\ result = "ok") =>
              /\ \A n \in Tasks, e \in {"call", "clean", "script", "artifact", "ret"} :
                    Times(e, n) = Paths(call.t, n)
              /\ (task = Diamond /\ call.t = A) =>
                    /\ Times("script", D) = 2
                    /\ \E c \in Events("clean"), k \in Events("artifact") :
                          /\ trace[c].t = D /\ trace[k].t = D /\ k < c
                          /\ trace[c].d = "stale"
        /\ \A j \in Events("copydep") :
              \E k \in Events("artifact") :
                  /\ k < j /\ trace[k].t = trace[j].d
                  /\ \A c \in Events("clean") :
                        trace[c].t = trace[j].d => ~(k < c /\ c < j)

C19_Witness ==
    /\ PackEnded /\ result = "ok" /\ task = Diamond /\ call.t = A
    /\ Times("script", D) = 2 /\ Paths(A, D) = 2
    /\ Cardinality(Events("copydep")) = 4

\* the two paths as task n's own fields render for version v
Icon(n, v) ==
    executeStringTemplate(task[n].linuxDesktopFileIconPath,
                          BaseData(ProjectName, v)).out

Exe(n, v) ==
    executeStringTemplate(task[n].linuxDesktopFileExecutablePath,
                          BaseData(ProjectName, v) @@ ("iconPath" :> Icon(n, v))).out

Complete(data) == "executablePath" \in DOMAIN data

\* C20: iconPath and executablePath are rendered from the fields of the task
\* that makes the first getTemplateData call of the process, which in a Pack
\* is the task packed first (the first to have allocated its temporary
\* directory), for the chain A -> B -> C asked for A the leaf C; from then
\* on the two entries do not change and every task, whatever its own two
\* fields, gets these values.
C20_PathsOfFirstCaller ==
    [][/\ (~once /\ once' /\ status = "running" /\ Complete(templateData')) =>
             /\ templateData'["iconPath"] = Icon(Top.t, Top.v)
             /\ templateData'["executablePath"] = Exe(Top.t, Top.v)
             /\ \A i \in Events("alloc") : trace[i].n >= Top.tmp
             /\ (task = Chain /\ call.t = A) =>
                   templateData'["iconPath"] = Icon(C, call.v)
       /\ (once /\ Complete(templateData)) =>
             /\ once' =>
                   /\ templateData'["iconPath"] = templateData["iconPath"]
                   /\ templateData'["executablePath"] = templateData["executablePath"]
             /\ \A n \in Tasks, v \in Versions :
                   LET g == getTemplateData(task[n], ProjectName, v).data
                   IN  /\ g["iconPath"] = templateData["iconPath"]
                       /\ g["executablePath"] = templateData["executablePath"]]_vars

C20_Witness ==
    /\ calls = 1 /\ task = Chain /\ call.op = "Pack" /\ call.t = A
    /\ status = "running" /\ Top.t = A /\ Top.pc = "artifact"
    /\ once /\ Complete(templateData)
    /\ templateData["iconPath"] = Icon(C, call.v)
    /\ templateData["iconPath"] # Icon(A, call.v)

====
